---- MODULE Spec2Model ----
(***************************************************************************)
(* Model of internal/pkg/agent/application/upgrade/details/details.go:     *)
(* the upgrade Details tracker (state, metadata, observers, mutex) driven  *)
(* by concurrent callers, and the pure comparison Details.Equals.          *)
(*                                                                         *)
(* Go values are modelled as follows.                                      *)
(*  - a State and an error description are strings ("" is the zero State); *)
(*  - a float64 is a record [kind, v]: kind "num" with the value v in      *)
(*    hundredths for a percentage and in bytes/second for a rate, kind     *)
(*    "inf" for +Inf and kind "nan" for NaN (Go's == is false on NaN);     *)
(*  - a *time.Time is an address into heap ("nil" for the nil pointer),    *)
(*    a time.Time is [instant, loc] and Time.Equal compares instants;      *)
(*  - a *Details handed to an observer is the value of the copy, Nil for   *)
(*    the nil pointer.                                                     *)
(* Fail is called with a non-nil error (err.Error() on a nil error panics).*)
(***************************************************************************)
EXTENDS Integers, Sequences, FiniteSets, TLC

\* ------------------------------------------------------------------ bounds
\* total number of method calls (SetState, SetDownloadProgress, Fail,
\* RegisterObserver, Equals) made on the tracker in one behaviour
MaxCalls == 3

Threads == {"t1", "t2"}

\* --------------------------------------------------------- program values
\* the precision MarshalJSON asks HumanSizeWithPrecision for
Precision == 2

StateFailed == "UPG_FAILED"
StateCompleted == "UPG_COMPLETED"
StateDownloading == "UPG_DOWNLOADING"
StateWatching == "UPG_WATCHING"
\* the State values callers pass; "" is the zero value of the string type
States == {"", StateDownloading, StateCompleted, StateFailed}

TargetVersions == {"9.1.0"}
ActionIDs == {"act-1"}
\* err.Error() of the errors passed to Fail
ErrorMsgs == {"", "disk full"}

Num(v) == [kind |-> "num", v |-> v]
PosInf == [kind |-> "inf", v |-> 1]
NaN == [kind |-> "nan", v |-> 0]
\* Go's == on float64
FloatEq(a, b) == a.kind # "nan" /\ b.kind # "nan" /\ a = b

\* (percent, rateBytesPerSecond) arguments of SetDownloadProgress
ProgressInputs == {<<Num(50), Num(2048)>>, <<Num(150), PosInf>>, <<Num(-10), Num(-1)>>}

NilPtr == "nil"
OwnerAddr == "a1"
Addrs == {"a1", "a2"}
ZeroTime == [instant |-> 0, loc |-> "UTC"]
Times == {[instant |-> 1, loc |-> "UTC"], [instant |-> 1, loc |-> "Local"],
          [instant |-> 2, loc |-> "UTC"]}

\* the nil *Details
Nil == [nil |-> TRUE]

ZeroMetadata ==
  [ScheduledAt |-> NilPtr, DownloadPercent |-> Num(0), DownloadRate |-> Num(0),
   FailedState |-> "", ErrorMsg |-> ""]

NewDetails(targetVersion, initialState, actionID) ==
  [TargetVersion |-> targetVersion, State |-> initialState,
   ActionID |-> actionID, Metadata |-> ZeroMetadata, observers |-> <<>>]

\* ------------------------------------------------- the bodies of the methods
\* SetState that refuses to leave Completed and Failed
SetStateAssignUnlessTerminal(dd, s) ==
  IF dd.State = StateCompleted \/ dd.State = StateFailed THEN dd ELSE [dd EXCEPT !.State = s]

\* SetState, line 76
SetStateAssign(dd, s) == [dd EXCEPT !.State = s]

\* SetState that clears failed_state only
SetStateClearKeepsErrorMsg(dd, s) ==
  IF s # StateFailed THEN [dd EXCEPT !.Metadata.FailedState = ""] ELSE dd

\* SetState that clears error_msg only
SetStateClearKeepsFailedState(dd, s) ==
  IF s # StateFailed THEN [dd EXCEPT !.Metadata.ErrorMsg = ""] ELSE dd

\* SetState, lines 81-84
SetStateClear(dd, s) ==
  IF s # StateFailed
    THEN [dd EXCEPT !.Metadata.ErrorMsg = "", !.Metadata.FailedState = ""]
    ELSE dd

\* SetDownloadProgress that keeps the percentage within [0, 1]
SetDownloadPercentClamped(dd, percent) ==
  [dd EXCEPT !.Metadata.DownloadPercent =
     IF percent.kind = "num" /\ percent.v > 100 THEN Num(100)
     ELSE IF percent.kind = "num" /\ percent.v < 0 THEN Num(0)
     ELSE percent]

\* SetDownloadProgress, line 95
SetDownloadPercent(dd, percent) == [dd EXCEPT !.Metadata.DownloadPercent = percent]

\* SetDownloadProgress, line 96
SetDownloadRate(dd, rate) == [dd EXCEPT !.Metadata.DownloadRate = rate]

\* Fail recording the state after it has set it to Failed
FailRecordStateAfterFailed(dd) == [dd EXCEPT !.Metadata.FailedState = StateFailed]

\* Fail with the test of line 111 inverted
FailRecordStateInverted(dd) ==
  IF dd.State = StateFailed THEN [dd EXCEPT !.Metadata.FailedState = dd.State] ELSE dd

\* Fail without the test of line 111
FailRecordStateAlways(dd) == [dd EXCEPT !.Metadata.FailedState = dd.State]

\* Fail, lines 111-113
FailRecordState(dd) ==
  IF dd.State # StateFailed
    THEN [dd EXCEPT !.Metadata.FailedState = dd.State]
    ELSE dd

\* Fail, line 115
FailErrorMsg(dd, msg) == [dd EXCEPT !.Metadata.ErrorMsg = msg]

\* Fail, line 116
FailState(dd) == [dd EXCEPT !.State = StateFailed]

\* RegisterObserver, line 127
AppendObserver(dd, observer) == [dd EXCEPT !.observers = Append(dd.observers, observer)]

\* notifyObserver that hands out nil for both terminal states
notifyObserverArgNilWhenTerminal(dd) ==
  IF dd.State = StateCompleted \/ dd.State = StateFailed
    THEN [nil |-> TRUE]
    ELSE [TargetVersion |-> dd.TargetVersion, State |-> dd.State,
          ActionID |-> dd.ActionID, Metadata |-> dd.Metadata, observers |-> <<>>]

\* notifyObserver whose copy leaves out the action id
notifyObserverArgWithoutActionID(dd) ==
  IF dd.State = StateCompleted
    THEN [nil |-> TRUE]
    ELSE [TargetVersion |-> dd.TargetVersion, State |-> dd.State,
          ActionID |-> "", Metadata |-> dd.Metadata, observers |-> <<>>]

\* notifyObserver, lines 156-166: the argument the observer is called with
notifyObserverArg(dd) ==
  IF dd.State = StateCompleted
    THEN Nil
    ELSE [TargetVersion |-> dd.TargetVersion, State |-> dd.State,
          ActionID |-> dd.ActionID, Metadata |-> dd.Metadata, observers |-> <<>>]

\* equalTimePointers, lines 177-186
equalTimePointers(t, otherT, h) ==
  IF t = otherT THEN TRUE
  ELSE IF t = NilPtr \/ otherT = NilPtr THEN FALSE
  ELSE h[t].instant = h[otherT].instant

\* Metadata.Equals, lines 169-175
MetadataEquals(m, otherM, h) ==
  /\ equalTimePointers(m.ScheduledAt, otherM.ScheduledAt, h)
  /\ m.FailedState = otherM.FailedState
  /\ m.ErrorMsg = otherM.ErrorMsg
  /\ FloatEq(m.DownloadPercent, otherM.DownloadPercent)
  /\ FloatEq(m.DownloadRate, otherM.DownloadRate)

\* Details.Equals, lines 132-147, on two *Details: p and otherP are addresses
\* of Details objects in store, or NilPtr
Equals(p, otherP, store, h) ==
  IF p = otherP THEN TRUE
  ELSE IF p = NilPtr \/ otherP = NilPtr THEN FALSE
  ELSE /\ store[p].State = store[otherP].State
       /\ store[p].TargetVersion = store[otherP].TargetVersion
       /\ store[p].ActionID = store[otherP].ActionID
       /\ MetadataEquals(store[p].Metadata, store[otherP].Metadata, h)

\* ------------------------------------------------------- the rate codec
\* A non-negative finite float64 of the codec, held as m * 10^e so that
\* 123456789.5 and 10^15 are exact; the canonical form has no trailing zero
\* in m.
Dec(m, e) == [kind |-> "dec", m |-> m, e |-> e]

RECURSIVE Pow10(_)
Pow10(n) == IF n = 0 THEN 1 ELSE 10 * Pow10(n - 1)

RECURSIVE Canon(_, _)
Canon(m, e) ==
  IF m = 0 THEN Dec(0, 0)
  ELSE IF m % 10 = 0 THEN Canon(m \div 10, e + 1)
  ELSE Dec(m, e)

RECURSIVE NumDigits(_)
NumDigits(m) == IF m < 10 THEN 1 ELSE 1 + NumDigits(m \div 10)

DigitChars == <<"0", "1", "2", "3", "4", "5", "6", "7", "8", "9">>
IsDigit(c) == \E k \in 1..10 : DigitChars[k] = c
DigitVal(c) == (CHOOSE k \in 1..10 : DigitChars[k] = c) - 1

\* the decimal digits of n
RECURSIVE Digits(_)
Digits(n) == IF n < 10 THEN <<DigitChars[n + 1]>> ELSE Append(Digits(n \div 10), DigitChars[(n % 10) + 1])

\* the number a run of digits writes
RECURSIVE Value(_)
Value(digs) ==
  IF digs = <<>> THEN 0 ELSE 10 * Value(SubSeq(digs, 1, Len(digs) - 1)) + DigitVal(digs[Len(digs)])

RECURSIVE Zeros(_)
Zeros(n) == IF n <= 0 THEN <<>> ELSE <<"0">> \o Zeros(n - 1)

Sentinel == <<"+", "I", "n", "f", " ", "b", "p", "s">>
Suffix == <<"p", "s">>

\* json.Marshal of a Go string made of these characters
JSONString(text) == [kind |-> "string", text |-> text]

\* go-units: decimapAbbrs
decimapAbbrs ==
  <<<<"B">>, <<"k", "B">>, <<"M", "B">>, <<"G", "B">>, <<"T", "B">>, <<"P", "B">>,
    <<"E", "B">>, <<"Z", "B">>, <<"Y", "B">>>>

\* size >= 1000.0
AtLeastBase(size) == size.m # 0 /\ NumDigits(size.m) - 1 + size.e >= 3

\* go-units getSizeAndUnit(size, 1000.0, decimapAbbrs), i units done
RECURSIVE getSizeAndUnit(_, _)
getSizeAndUnit(size, i) ==
  IF AtLeastBase(size) /\ i < Len(decimapAbbrs) - 1
    THEN getSizeAndUnit(Dec(size.m, size.e - 3), i + 1)
    ELSE [size |-> size, unit |-> decimapAbbrs[i + 1]]

\* the exponent part of %g: e, sign, at least two digits
FormatExp(x) ==
  <<"e", IF x < 0 THEN "-" ELSE "+">> \o
  (LET a == IF x < 0 THEN 0 - x ELSE x IN IF a < 10 THEN <<"0">> \o Digits(a) ELSE Digits(a))

\* fmt.Sprintf("%.*g", prec, size): prec significant digits, rounded half to
\* even, no trailing zeros, exponent form when the exponent is < -4 or >= prec
FormatG(size, prec) ==
  IF size.m = 0 THEN <<"0">>
  ELSE
    LET n == NumDigits(size.m)
        drop == n - prec
        q0 == IF drop > 0 THEN size.m \div Pow10(drop) ELSE size.m
        r == IF drop > 0 THEN size.m % Pow10(drop) ELSE 0
        half == IF drop > 0 THEN 5 * Pow10(drop - 1) ELSE 1
        q1 == IF r > half \/ (r = half /\ q0 % 2 = 1) THEN q0 + 1 ELSE q0
        x == n - 1 + size.e + (IF NumDigits(q1) > NumDigits(q0) THEN 1 ELSE 0)
        digs == Digits(Canon(q1, 0).m)
        k == Len(digs)
    IN IF x < -4 \/ x >= prec
         THEN <<digs[1]>> \o (IF k > 1 THEN <<".">> \o SubSeq(digs, 2, k) ELSE <<>>) \o FormatExp(x)
       ELSE IF x < 0
         THEN <<"0", ".">> \o Zeros(0 - x - 1) \o digs
       ELSE IF k <= x + 1
         THEN digs \o Zeros(x + 1 - k)
       ELSE SubSeq(digs, 1, x + 1) \o <<".">> \o SubSeq(digs, x + 2, k)

\* go-units HumanSizeWithPrecision
HumanSizeWithPrecision(size, precision) ==
  LET su == getSizeAndUnit(size, 0) IN FormatG(su.size, precision) \o su.unit

\* downloadRate.MarshalJSON
MarshalJSON(dr) ==
  IF dr = PosInf THEN JSONString(Sentinel)
  ELSE JSONString(HumanSizeWithPrecision(dr, Precision) \o Suffix)

HasSuffix(str, suffix) ==
  /\ Len(str) >= Len(suffix)
  /\ SubSeq(str, Len(str) - Len(suffix) + 1, Len(str)) = suffix

\* strings.TrimSuffix
TrimSuffix(str, suffix) ==
  IF HasSuffix(str, suffix) THEN SubSeq(str, 1, Len(str) - Len(suffix)) ELSE str

\* strings.LastIndexAny, counting from 1; 0 when there is none
LastIndexAny(str, chars) ==
  IF \E k \in 1..Len(str) : str[k] \in chars
    THEN CHOOSE k \in 1..Len(str) :
           /\ str[k] \in chars
           /\ \A j \in (k + 1)..Len(str) : str[j] \notin chars
    ELSE 0

\* the number of digits of str from position i on
RECURSIVE DigitRun(_, _)
DigitRun(str, i) ==
  IF i <= Len(str) /\ IsDigit(str[i]) THEN 1 + DigitRun(str, i + 1) ELSE 0

NotANumber == [ok |-> FALSE, neg |-> FALSE, val |-> Dec(0, 0)]

\* strconv.ParseFloat on decimal text: sign, digits, point, digits, exponent
ParseFloat(str) ==
  LET signLen == IF Len(str) >= 1 /\ str[1] \in {"+", "-"} THEN 1 ELSE 0
      ni == DigitRun(str, signLen + 1)
      afterInt == signLen + ni + 1
      hasDot == afterInt <= Len(str) /\ str[afterInt] = "."
      nf == IF hasDot THEN DigitRun(str, afterInt + 1) ELSE 0
      afterMant == IF hasDot THEN afterInt + 1 + nf ELSE afterInt
      hasExp == afterMant <= Len(str) /\ str[afterMant] \in {"e", "E"}
      esignLen == IF hasExp /\ afterMant + 1 <= Len(str) /\ str[afterMant + 1] \in {"+", "-"}
                    THEN 1 ELSE 0
      ne == IF hasExp THEN DigitRun(str, afterMant + 1 + esignLen) ELSE 0
      end == IF hasExp THEN afterMant + 1 + esignLen + ne ELSE afterMant
      mant == Value(SubSeq(str, signLen + 1, signLen + ni) \o
                    SubSeq(str, afterInt + 1, afterInt + nf))
      ex == IF hasExp THEN Value(SubSeq(str, afterMant + 1 + esignLen, end - 1)) ELSE 0
  IN IF ni + nf = 0 \/ (hasExp /\ ne = 0) \/ end # Len(str) + 1
       THEN NotANumber
       ELSE [ok |-> TRUE,
             neg |-> signLen = 1 /\ str[1] = "-",
             val |-> Canon(mant, (IF esignLen = 1 /\ str[afterMant + 1] = "-" THEN 0 - ex ELSE ex) - nf)]

\* strings.ToLower on the letters of a unit
ToLowerChar(c) ==
  CASE c = "B" -> "b" [] c = "I" -> "i" [] c = "K" -> "k" [] c = "M" -> "m"
    [] c = "G" -> "g" [] c = "T" -> "t" [] c = "P" -> "p" [] c = "E" -> "e"
    [] c = "S" -> "s" [] OTHER -> c
ToLower(str) == [k \in 1..Len(str) |-> ToLowerChar(str[k])]

\* go-units decimalMap, as powers of ten
decimalMap == [c \in {"k", "m", "g", "t", "p"} |->
                 CASE c = "k" -> 3 [] c = "m" -> 6 [] c = "g" -> 9 [] c = "t" -> 12 [] c = "p" -> 15]

\* float64(int64(size)): the fraction is cut off
Int64(size) == IF size.e >= 0 THEN size ELSE Canon(size.m \div Pow10(0 - size.e), 0)

SizeError == [err |-> TRUE, size |-> Dec(0, 0)]
SizeOf(x) == [err |-> FALSE, size |-> x]

\* go-units FromHumanSize: parseSize(sizeStr, decimalMap)
FromHumanSize(sizeStr) ==
  LET sep == LastIndexAny(sizeStr, {"0", "1", "2", "3", "4", "5", "6", "7", "8", "9", ".", " "})
  IN IF sep = 0 THEN SizeError
     ELSE
       LET num == IF sizeStr[sep] # " " THEN SubSeq(sizeStr, 1, sep) ELSE SubSeq(sizeStr, 1, sep - 1)
           sfx == ToLower(SubSeq(sizeStr, sep + 1, Len(sizeStr)))
           f == ParseFloat(num)
       IN IF ~f.ok THEN SizeError
          ELSE IF f.neg /\ f.val.m # 0 THEN SizeError
          ELSE IF Len(sfx) = 0 THEN SizeOf(Int64(f.val))
          ELSE IF Len(sfx) > 3 THEN SizeError
          ELSE IF sfx[1] = "b" THEN (IF Len(sfx) > 1 THEN SizeError ELSE SizeOf(Int64(f.val)))
          ELSE IF sfx[1] \notin DOMAIN decimalMap THEN SizeError
          ELSE IF Len(sfx) = 2 /\ sfx[2] # "b" THEN SizeError
          ELSE IF Len(sfx) = 3 /\ SubSeq(sfx, 2, 3) # <<"i", "b">> THEN SizeError
          ELSE SizeOf(Int64(Canon(f.val.m, f.val.e + decimalMap[sfx[1]])))

\* downloadRate.UnmarshalJSON: the error it returns and the value *dr has then
UnmarshalJSON(data, dest) ==
  IF data.kind \notin {"string", "null"} THEN [err |-> TRUE, dr |-> dest]
  ELSE
    LET downloadRateStr == IF data.kind = "null" THEN <<>> ELSE data.text
    IN IF downloadRateStr = Sentinel THEN [err |-> FALSE, dr |-> PosInf]
       ELSE LET r == FromHumanSize(TrimSuffix(downloadRateStr, Suffix))
            IN IF r.err THEN [err |-> TRUE, dr |-> dest] ELSE [err |-> FALSE, dr |-> r.size]

\* ------------------------------------------------------------------ state
VARIABLES
  d,          \* the Details struct (fields and observers)
  mu,         \* d.mu: "free" or the thread holding it
  heap,       \* the time.Time objects that *time.Time pointers refer to
  pc,         \* per thread: position in the method it executes
  call,       \* per thread: the method called and its arguments
  idx,        \* per thread: loop index of notifyObservers
  view,       \* per thread: what an Equals call has read of d so far
  delivered,  \* per observer: the arguments of its invocations, in order
  calls,      \* number of calls started
  commits,    \* history: d after each mutation, in the order of the lock
  regAt,      \* history: per observer, Len(commits) when it was registered
  entry,      \* history: d (and the last state-changing method) when the lock was taken
  callLog,    \* history: <<observer, argument>> invocations of the running call
  lastStateOp,\* history: "create", "setState" or "fail", whichever set State last
  eqIn,       \* inputs of the pure Equals evaluation
  eqOut,      \* results of the pure Equals evaluation
  created,    \* history: the targetVersion and actionID passed to NewDetails
  reentrant,  \* the observers that call a method of the tracker when notified
  outer,      \* per thread: the call that is suspended in an observer callback
  rcIn,       \* input of the rate codec evaluation
  rcOut       \* results of the rate codec evaluation

trackerVars == <<d, mu, heap, pc, call, idx, view, delivered, calls>>
histVars == <<commits, regAt, entry, callLog, lastStateOp>>
eqVars == <<eqIn, eqOut>>
otherVars == <<created, reentrant, outer, rcIn, rcOut>>
vars == <<d, mu, heap, pc, call, idx, view, delivered, calls,
          commits, regAt, entry, callLog, lastStateOp, eqIn, eqOut,
          created, reentrant, outer, rcIn, rcOut>>

Free == "free"
NoCall == [op |-> "none", s |-> "", msg |-> "", percent |-> Num(0), rate |-> Num(0),
           other |-> NilPtr, otherVal |-> Nil, observer |-> "returns"]
NoView == [State |-> "", Metadata |-> ZeroMetadata, done |-> FALSE, result |-> FALSE]
NoEqIn == [store |-> <<>>, x |-> NilPtr, y |-> NilPtr]
NoEqOut == [xy |-> FALSE, yx |-> FALSE, xx |-> FALSE, applied |-> FALSE]
NoOuter == [pc |-> "none", call |-> NoCall, idx |-> 0]
NoData == [kind |-> "null", text |-> <<>>]
NoRcIn == [kind |-> "none", rate |-> Dec(0, 0), data |-> NoData, dest |-> Dec(0, 0)]
NoRcOut == [stage |-> "none", encoded |-> NoData, err |-> FALSE, dr |-> Dec(0, 0)]

Init ==
  /\ \E tv \in TargetVersions, s \in States, aid \in ActionIDs : d = NewDetails(tv, s, aid)
  /\ created = [TargetVersion |-> d.TargetVersion, ActionID |-> d.ActionID]
  /\ reentrant = {}
  /\ outer = [t \in Threads |-> NoOuter]
  /\ rcIn = NoRcIn
  /\ rcOut = NoRcOut
  /\ mu = Free
  /\ heap = [a \in Addrs |-> ZeroTime]
  /\ pc = [t \in Threads |-> "idle"]
  /\ call = [t \in Threads |-> NoCall]
  /\ idx = [t \in Threads |-> 0]
  /\ view = [t \in Threads |-> NoView]
  /\ delivered = <<>>
  /\ calls = 0
  /\ commits = <<>>
  /\ regAt = <<>>
  /\ entry = [d |-> d, lastStateOp |-> "create"]
  /\ callLog = <<>>
  /\ lastStateOp = "create"
  /\ eqIn = NoEqIn
  /\ eqOut = NoEqOut

\* The owner of a freshly constructed tracker writes the exported field
\* Metadata.ScheduledAt before it shares the tracker with other threads.
AssignScheduledAt(tv) ==
  /\ calls = 0
  /\ \A t \in Threads : pc[t] = "idle"
  /\ d.Metadata.ScheduledAt = NilPtr
  /\ d' = [d EXCEPT !.Metadata.ScheduledAt = OwnerAddr]
  /\ heap' = [heap EXCEPT ![OwnerAddr] = tv]
  /\ UNCHANGED <<mu, pc, call, idx, view, delivered, calls>>
  /\ UNCHANGED histVars
  /\ UNCHANGED eqVars
  /\ UNCHANGED otherVars

\* ------------------------------------------------------------ method calls
StartCall(t, c) ==
  /\ pc[t] = "idle"
  /\ calls < MaxCalls
  /\ calls' = calls + 1
  /\ call' = [call EXCEPT ![t] = c]
  /\ pc' = [pc EXCEPT ![t] = "lock"]
  /\ UNCHANGED <<d, mu, heap, idx, view, delivered>>
  /\ UNCHANGED histVars
  /\ UNCHANGED eqVars
  /\ UNCHANGED otherVars

CallSetState(t) ==
  \E s \in States : StartCall(t, [NoCall EXCEPT !.op = "SetState", !.s = s])

CallSetDownloadProgress(t) ==
  \E in \in ProgressInputs :
    StartCall(t, [NoCall EXCEPT !.op = "SetDownloadProgress", !.percent = in[1], !.rate = in[2]])

CallFail(t) ==
  \E msg \in ErrorMsgs : StartCall(t, [NoCall EXCEPT !.op = "Fail", !.msg = msg])

CallRegisterObserver(t) ==
  StartCall(t, [NoCall EXCEPT !.op = "RegisterObserver"])

FirstLine(op) ==
  CASE op = "SetState" -> "ss76"
    [] op = "SetDownloadProgress" -> "dp95"
    [] op = "Fail" -> "f111"
    [] op = "RegisterObserver" -> "ro127"

\* a lock that does not wait for its holder
LockWithoutExclusion(t) ==
  /\ pc[t] = "lock"
  /\ mu' = t
  /\ pc' = [pc EXCEPT ![t] = FirstLine(call[t].op)]
  /\ entry' = [d |-> d, lastStateOp |-> lastStateOp]
  /\ callLog' = <<>>
  /\ UNCHANGED <<d, heap, call, idx, view, delivered, calls, commits, regAt, lastStateOp>>
  /\ UNCHANGED eqVars
  /\ UNCHANGED otherVars

\* d.mu.Lock() at the head of SetState, SetDownloadProgress, Fail, RegisterObserver
Lock(t) ==
  /\ pc[t] = "lock"
  /\ mu = Free
  /\ mu' = t
  /\ pc' = [pc EXCEPT ![t] = FirstLine(call[t].op)]
  /\ entry' = [d |-> d, lastStateOp |-> lastStateOp]
  /\ callLog' = <<>>
  /\ UNCHANGED <<d, heap, call, idx, view, delivered, calls, commits, regAt, lastStateOp>>
  /\ UNCHANGED eqVars
  /\ UNCHANGED otherVars

\* one assignment of a method body: d becomes nd, the thread moves to next
Step(t, from, nd, next) ==
  /\ pc[t] = from
  /\ d' = nd
  /\ pc' = [pc EXCEPT ![t] = next]
  /\ UNCHANGED <<mu, heap, call, view, delivered, calls, regAt, entry, callLog>>
  /\ UNCHANGED eqVars
  /\ UNCHANGED otherVars

\* the last assignment of a mutating method: the call to notifyObservers follows
LastStep(t, from, nd, stateOp) ==
  /\ Step(t, from, nd, "notify")
  /\ idx' = [idx EXCEPT ![t] = 1]
  /\ commits' = Append(commits, nd)
  /\ lastStateOp' = stateOp

SetState76(t) ==
  /\ Step(t, "ss76", SetStateAssign(d, call[t].s), "ss81")
  /\ UNCHANGED <<idx, commits, lastStateOp>>

SetState81(t) ==
  LastStep(t, "ss81", SetStateClear(d, call[t].s), "setState")

SetDownloadProgress95(t) ==
  /\ Step(t, "dp95", SetDownloadPercent(d, call[t].percent), "dp96")
  /\ UNCHANGED <<idx, commits, lastStateOp>>

SetDownloadProgress96(t) ==
  LastStep(t, "dp96", SetDownloadRate(d, call[t].rate), lastStateOp)

Fail111(t) ==
  /\ Step(t, "f111", FailRecordState(d), "f115")
  /\ UNCHANGED <<idx, commits, lastStateOp>>

Fail115(t) ==
  /\ Step(t, "f115", FailErrorMsg(d, call[t].msg), "f116")
  /\ UNCHANGED <<idx, commits, lastStateOp>>

Fail116(t) ==
  LastStep(t, "f116", FailState(d), "fail")

\* notifyObservers looping from the last observer to the first
notifyOrderReversed(observers) ==
  [k \in 1..Len(observers) |-> observers[Len(observers) + 1 - k]]

\* notifyObservers stopping before the last observer
notifyOrderWithoutLast(observers) == SubSeq(observers, 1, Len(observers) - 1)

\* the observers notifyObservers calls, in the order it calls them (line 150)
notifyOrder(observers) == observers

\* one iteration of the loop of notifyObservers (lines 150-152)
NotifyObserversStep(t) ==
  /\ pc[t] = "notify"
  /\ idx[t] <= Len(notifyOrder(d.observers))
  /\ LET observer == notifyOrder(d.observers)[idx[t]]
         arg == notifyObserverArg(d)
     IN /\ delivered' = [delivered EXCEPT ![observer] = Append(@, arg)]
        /\ callLog' = Append(callLog, <<observer, arg>>)
  /\ idx' = [idx EXCEPT ![t] = @ + 1]
  /\ UNCHANGED <<d, mu, heap, pc, call, view, calls, commits, regAt, entry, lastStateOp>>
  /\ UNCHANGED eqVars
  /\ UNCHANGED otherVars

\* the loop of notifyObservers ends
NotifyObserversDone(t) ==
  /\ pc[t] = "notify"
  /\ idx[t] > Len(notifyOrder(d.observers))
  /\ pc' = [pc EXCEPT ![t] = "unlock"]
  /\ UNCHANGED <<d, mu, heap, call, idx, view, delivered, calls>>
  /\ UNCHANGED histVars
  /\ UNCHANGED eqVars
  /\ UNCHANGED otherVars

\* RegisterObserver, line 127; an observer is named by its place in the list
RegisterObserver127(t) ==
  /\ pc[t] = "ro127"
  /\ d' = AppendObserver(d, Len(d.observers) + 1)
  /\ delivered' = Append(delivered, <<>>)
  /\ regAt' = Append(regAt, Len(commits))
  /\ pc' = [pc EXCEPT ![t] = "ro128"]
  /\ reentrant' = IF call[t].observer = "calls back"
                    THEN reentrant \cup {Len(d.observers) + 1} ELSE reentrant
  /\ UNCHANGED <<mu, heap, call, idx, view, calls, commits, entry, callLog, lastStateOp>>
  /\ UNCHANGED eqVars
  /\ UNCHANGED <<created, outer, rcIn, rcOut>>

\* RegisterObserver calling notifyObservers instead of notifyObserver
registerNotifiesAll(observers) == observers

\* the observers RegisterObserver notifies (line 128)
registerNotifies(observers) == <<observers[Len(observers)]>>

RegisterObserver128(t) ==
  /\ pc[t] = "ro128"
  /\ LET arg == notifyObserverArg(d)
         os == registerNotifies(d.observers)
     IN /\ delivered' = [o \in DOMAIN delivered |->
                           IF \E k \in DOMAIN os : os[k] = o
                             THEN Append(delivered[o], arg) ELSE delivered[o]]
        /\ callLog' = callLog \o [k \in DOMAIN os |-> <<os[k], arg>>]
  /\ pc' = [pc EXCEPT ![t] = "unlock"]
  /\ UNCHANGED <<d, mu, heap, call, idx, view, calls, commits, regAt, entry, lastStateOp>>
  /\ UNCHANGED eqVars
  /\ UNCHANGED otherVars

\* a return that leaves the lock held
UnlockWithoutRelease(t) ==
  /\ pc[t] = "unlock"
  /\ mu' = mu
  /\ pc' = [pc EXCEPT ![t] = "idle"]
  /\ call' = [call EXCEPT ![t] = NoCall]
  /\ idx' = [idx EXCEPT ![t] = 0]
  /\ UNCHANGED <<d, heap, view, delivered, calls>>
  /\ UNCHANGED histVars
  /\ UNCHANGED eqVars
  /\ UNCHANGED otherVars

\* the deferred d.mu.Unlock() and the return
Unlock(t) ==
  /\ pc[t] = "unlock"
  /\ mu' = Free
  /\ pc' = [pc EXCEPT ![t] = "idle"]
  /\ call' = [call EXCEPT ![t] = NoCall]
  /\ idx' = [idx EXCEPT ![t] = 0]
  /\ UNCHANGED <<d, heap, view, delivered, calls>>
  /\ UNCHANGED histVars
  /\ UNCHANGED eqVars
  /\ UNCHANGED otherVars

\* ------------------------------- observers that call back into the tracker
\* RegisterObserver with an observer whose callback, depending on what it is
\* passed, either returns or first calls a method of the same tracker
CallRegisterReentrantObserver(t) ==
  StartCall(t, [NoCall EXCEPT !.op = "RegisterObserver", !.observer = "calls back"])

\* the method calls an observer makes from its callback
NestedCalls ==
  {[NoCall EXCEPT !.op = "SetState", !.s = StateDownloading],
   [NoCall EXCEPT !.op = "SetDownloadProgress", !.percent = Num(50), !.rate = Num(2048)],
   [NoCall EXCEPT !.op = "Fail", !.msg = "disk full"],
   [NoCall EXCEPT !.op = "RegisterObserver"]}

\* observer is called with arg on thread t, which is to go on at resume with
\* loop index i once the callback returns; the callback calls method c
CallBack(t, observer, arg, resume, i, c) ==
  /\ delivered' = [delivered EXCEPT ![observer] = Append(@, arg)]
  /\ callLog' = Append(callLog, <<observer, arg>>)
  /\ outer' = [outer EXCEPT ![t] = [pc |-> resume, call |-> call[t], idx |-> i]]
  /\ call' = [call EXCEPT ![t] = c]
  /\ pc' = [pc EXCEPT ![t] = "lock"]
  /\ UNCHANGED <<d, mu, heap, idx, view, calls, commits, regAt, entry, lastStateOp>>
  /\ UNCHANGED eqVars
  /\ UNCHANGED <<created, reentrant, rcIn, rcOut>>

\* an iteration of notifyObservers (line 151) whose observer calls back
NotifyReentrantObserver(t) ==
  /\ pc[t] = "notify"
  /\ idx[t] <= Len(notifyOrder(d.observers))
  /\ notifyOrder(d.observers)[idx[t]] \in reentrant
  /\ \E c \in NestedCalls :
       CallBack(t, notifyOrder(d.observers)[idx[t]], notifyObserverArg(d), "notify", idx[t] + 1, c)

\* line 128 of RegisterObserver with an observer that calls back
RegisterReentrantObserver128(t) ==
  /\ pc[t] = "ro128"
  /\ d.observers[Len(d.observers)] \in reentrant
  /\ \E c \in NestedCalls :
       CallBack(t, d.observers[Len(d.observers)], notifyObserverArg(d), "unlock", idx[t], c)

\* ------------------------------------------------- Equals, which takes no lock
\* the Details values a caller compares the tracker with
OtherDetails ==
  {NewDetails(tv, StateDownloading, aid) : tv \in TargetVersions, aid \in ActionIDs}

\* d.Equals(otherD): otherD is the tracker itself ("self"), nil, or another Details
CallEquals(t) ==
  /\ pc[t] = "idle"
  /\ calls < MaxCalls
  /\ calls' = calls + 1
  /\ \/ \E o \in {"self", NilPtr} :
          call' = [call EXCEPT ![t] = [NoCall EXCEPT !.op = "Equals", !.other = o]]
     \/ \E v \in OtherDetails :
          call' = [call EXCEPT ![t] = [NoCall EXCEPT !.op = "Equals", !.other = "o", !.otherVal = v]]
  /\ pc' = [pc EXCEPT ![t] = "eq134"]
  /\ UNCHANGED <<d, mu, heap, idx, view, delivered>>
  /\ UNCHANGED histVars
  /\ UNCHANGED eqVars
  /\ UNCHANGED otherVars

EqualsMove(t, from, nv, next) ==
  /\ pc[t] = from
  /\ view' = [view EXCEPT ![t] = nv]
  /\ pc' = [pc EXCEPT ![t] = next]
  /\ UNCHANGED <<d, mu, heap, call, idx, delivered, calls>>
  /\ UNCHANGED histVars
  /\ UNCHANGED eqVars
  /\ UNCHANGED otherVars

\* lines 134-141: the comparisons of the two pointers
Equals134(t) ==
  /\ pc[t] = "eq134"
  /\ IF call[t].other = "self"
       THEN EqualsMove(t, "eq134", [view[t] EXCEPT !.result = TRUE], "eqret")
       ELSE IF call[t].other = NilPtr
         THEN EqualsMove(t, "eq134", [view[t] EXCEPT !.result = FALSE], "eqret")
         ELSE EqualsMove(t, "eq134", view[t], "eq143")

\* line 143: reads d.State
Equals143(t) ==
  /\ pc[t] = "eq143"
  /\ IF d.State = call[t].otherVal.State
       THEN EqualsMove(t, "eq143", [view[t] EXCEPT !.State = d.State], "eq144")
       ELSE EqualsMove(t, "eq143", [view[t] EXCEPT !.State = d.State, !.result = FALSE], "eqret")

\* lines 144-145: reads d.TargetVersion and d.ActionID
Equals144(t) ==
  /\ pc[t] = "eq144"
  /\ IF d.TargetVersion = call[t].otherVal.TargetVersion /\ d.ActionID = call[t].otherVal.ActionID
       THEN EqualsMove(t, "eq144", view[t], "eq146")
       ELSE EqualsMove(t, "eq144", [view[t] EXCEPT !.result = FALSE], "eqret")

\* line 146: copies d.Metadata for the call of Metadata.Equals
Equals146(t) ==
  EqualsMove(t, "eq146",
             [view[t] EXCEPT !.Metadata = d.Metadata, !.done = TRUE,
                             !.result = MetadataEquals(d.Metadata, call[t].otherVal.Metadata, heap)],
             "eqret")

EqualsReturn(t) ==
  /\ pc[t] = "eqret"
  /\ pc' = [pc EXCEPT ![t] = "idle"]
  /\ call' = [call EXCEPT ![t] = NoCall]
  /\ view' = [view EXCEPT ![t] = NoView]
  /\ UNCHANGED <<d, mu, heap, idx, delivered, calls>>
  /\ UNCHANGED histVars
  /\ UNCHANGED eqVars
  /\ UNCHANGED otherVars

\* ------------------------------------------------------------- observers
\* An observer keeps the *Details it was called with and stores a time.Time
\* through the Metadata.ScheduledAt pointer of that copy.
ObserverWrite(o, tv) ==
  /\ o \in DOMAIN delivered
  /\ \E k \in DOMAIN delivered[o] :
       /\ delivered[o][k] # Nil
       /\ delivered[o][k].Metadata.ScheduledAt # NilPtr
       /\ heap[delivered[o][k].Metadata.ScheduledAt] # tv
       /\ heap' = [heap EXCEPT ![delivered[o][k].Metadata.ScheduledAt] = tv]
  /\ UNCHANGED <<d, mu, pc, call, idx, view, delivered, calls>>
  /\ UNCHANGED histVars
  /\ UNCHANGED eqVars
  /\ UNCHANGED otherVars

Next ==
  \/ AssignScheduledAt([instant |-> 1, loc |-> "UTC"])
  \/ \E t \in Threads : CallSetState(t)
  \/ \E t \in Threads : CallSetDownloadProgress(t)
  \/ \E t \in Threads : CallFail(t)
  \/ \E t \in Threads : CallRegisterObserver(t)
  \/ \E t \in Threads : Lock(t)
  \/ \E t \in Threads : SetState76(t)
  \/ \E t \in Threads : SetState81(t)
  \/ \E t \in Threads : SetDownloadProgress95(t)
  \/ \E t \in Threads : SetDownloadProgress96(t)
  \/ \E t \in Threads : Fail111(t)
  \/ \E t \in Threads : Fail115(t)
  \/ \E t \in Threads : Fail116(t)
  \/ \E t \in Threads : NotifyObserversStep(t)
  \/ \E t \in Threads : NotifyObserversDone(t)
  \/ \E t \in Threads : RegisterObserver127(t)
  \/ \E t \in Threads : RegisterObserver128(t)
  \/ \E t \in Threads : Unlock(t)
  \/ \E t \in Threads : CallEquals(t)
  \/ \E t \in Threads : Equals134(t)
  \/ \E t \in Threads : Equals143(t)
  \/ \E t \in Threads : Equals144(t)
  \/ \E t \in Threads : Equals146(t)
  \/ \E t \in Threads : EqualsReturn(t)
  \/ \E o \in DOMAIN delivered, tv \in Times : ObserverWrite(o, tv)

Spec == Init /\ [][Next]_vars

\* the calls of the four methods that take the lock, and their steps
NextLocking ==
  \/ \E t \in Threads : CallSetState(t)
  \/ \E t \in Threads : CallSetDownloadProgress(t)
  \/ \E t \in Threads : CallFail(t)
  \/ \E t \in Threads : CallRegisterObserver(t)
  \/ \E t \in Threads : Lock(t)
  \/ \E t \in Threads : SetState76(t)
  \/ \E t \in Threads : SetState81(t)
  \/ \E t \in Threads : SetDownloadProgress95(t)
  \/ \E t \in Threads : SetDownloadProgress96(t)
  \/ \E t \in Threads : Fail111(t)
  \/ \E t \in Threads : Fail115(t)
  \/ \E t \in Threads : Fail116(t)
  \/ \E t \in Threads : NotifyObserversStep(t)
  \/ \E t \in Threads : NotifyObserversDone(t)
  \/ \E t \in Threads : RegisterObserver127(t)
  \/ \E t \in Threads : RegisterObserver128(t)
  \/ \E t \in Threads : Unlock(t)

\* the same with observers that call back into the tracker
NextReentrant ==
  \/ NextLocking
  \/ \E t \in Threads : CallRegisterReentrantObserver(t)
  \/ \E t \in Threads : NotifyReentrantObserver(t)
  \/ \E t \in Threads : RegisterReentrantObserver128(t)

SpecReentrant == Init /\ [][NextReentrant]_vars

\* the steps of a call that holds the lock
Run(t) ==
  \/ SetState76(t) \/ SetState81(t)
  \/ SetDownloadProgress95(t) \/ SetDownloadProgress96(t)
  \/ Fail111(t) \/ Fail115(t) \/ Fail116(t)
  \/ NotifyObserversStep(t) \/ NotifyObserversDone(t)
  \/ RegisterObserver127(t) \/ RegisterObserver128(t)
  \/ Unlock(t)

\* A goroutine that can run is scheduled, and a goroutine that waits in
\* mu.Lock() gets the mutex if it stays free.
Fairness == \A t \in Threads : WF_vars(Run(t)) /\ WF_vars(Lock(t))

\* a tracker constructed in the Downloading state and not yet used
InitFair == Init /\ d.State = StateDownloading

SpecFair == InitFair /\ [][NextLocking]_vars /\ Fairness

\* ------------------------------------------- Equals as a function of two values
\* Inputs of Details.Equals: two Details objects d1 and d2, where d2 differs
\* from d1 in at most MaxFlips fields, and two pointers x and y, each nil or
\* the address of one of the objects.
MaxFlips == 2
\* longest text handed to downloadRate.UnmarshalJSON
MaxTextLen == 4

EqFields == {"State", "TargetVersion", "ActionID", "ScheduledAt", "DownloadPercent",
             "DownloadRate", "FailedState", "ErrorMsg", "observers"}

EqBase ==
  {[TargetVersion |-> "9.1.0", State |-> s, ActionID |-> "act-1",
    Metadata |-> [ScheduledAt |-> p, DownloadPercent |-> pct, DownloadRate |-> PosInf,
                  FailedState |-> "", ErrorMsg |-> ""],
    observers |-> <<>>] :
     s \in {StateDownloading, StateFailed}, p \in {NilPtr} \cup Addrs, pct \in {Num(50), NaN}}

\* another value of the same field
Other(v, a, b) == IF v = a THEN b ELSE a

Flip(dd, F) ==
  [TargetVersion |-> IF "TargetVersion" \in F THEN "9.0.0" ELSE dd.TargetVersion,
   State |-> IF "State" \in F THEN Other(dd.State, StateDownloading, StateFailed) ELSE dd.State,
   ActionID |-> IF "ActionID" \in F THEN "" ELSE dd.ActionID,
   Metadata |->
     [ScheduledAt |-> IF "ScheduledAt" \in F
                        THEN Other(dd.Metadata.ScheduledAt, "a2", "a1")
                        ELSE dd.Metadata.ScheduledAt,
      DownloadPercent |-> IF "DownloadPercent" \in F
                            THEN Other(dd.Metadata.DownloadPercent, Num(50), Num(150))
                            ELSE dd.Metadata.DownloadPercent,
      DownloadRate |-> IF "DownloadRate" \in F THEN Num(2048) ELSE dd.Metadata.DownloadRate,
      FailedState |-> IF "FailedState" \in F THEN StateDownloading ELSE dd.Metadata.FailedState,
      ErrorMsg |-> IF "ErrorMsg" \in F THEN "disk full" ELSE dd.Metadata.ErrorMsg],
   observers |-> IF "observers" \in F THEN <<1>> ELSE dd.observers]

InitEquals ==
  /\ d = NewDetails("9.1.0", "", "act-1")
  /\ created = [TargetVersion |-> d.TargetVersion, ActionID |-> d.ActionID]
  /\ reentrant = {}
  /\ outer = [t \in Threads |-> NoOuter]
  /\ rcIn = NoRcIn
  /\ rcOut = NoRcOut
  /\ mu = Free
  /\ \E tv \in Times : heap = [a \in Addrs |-> IF a = "a1" THEN [instant |-> 1, loc |-> "UTC"] ELSE tv]
  /\ pc = [t \in Threads |-> "idle"]
  /\ call = [t \in Threads |-> NoCall]
  /\ idx = [t \in Threads |-> 0]
  /\ view = [t \in Threads |-> NoView]
  /\ delivered = <<>>
  /\ calls = 0
  /\ commits = <<>>
  /\ regAt = <<>>
  /\ entry = [d |-> d, lastStateOp |-> "create"]
  /\ callLog = <<>>
  /\ lastStateOp = "create"
  /\ \E d1 \in EqBase, F \in SUBSET EqFields, x \in {NilPtr, "d1", "d2"}, y \in {NilPtr, "d1", "d2"} :
       /\ Cardinality(F) <= MaxFlips
       /\ eqIn = [store |-> [a \in {"d1", "d2"} |-> IF a = "d1" THEN d1 ELSE Flip(d1, F)],
                  x |-> x, y |-> y]
  /\ eqOut = NoEqOut

\* x.Equals(y), y.Equals(x) and x.Equals(x) are evaluated
EqualsApply ==
  /\ ~eqOut.applied
  /\ eqOut' = [xy |-> Equals(eqIn.x, eqIn.y, eqIn.store, heap),
               yx |-> Equals(eqIn.y, eqIn.x, eqIn.store, heap),
               xx |-> Equals(eqIn.x, eqIn.x, eqIn.store, heap),
               applied |-> TRUE]
  /\ UNCHANGED <<eqIn>>
  /\ UNCHANGED trackerVars
  /\ UNCHANGED histVars
  /\ UNCHANGED otherVars

NextEquals == EqualsApply

SpecEquals == InitEquals /\ [][NextEquals]_vars

\* ------------------------------------------- the rate codec on its inputs
\* the rates that are encoded and decoded again
RateInputs ==
  {Dec(0, 0), Dec(1536, 0), Dec(2048, 0), Dec(1048576, 0), Dec(1234567895, -1),
   Dec(9996, 2), PosInf}

\* the value *dr holds before UnmarshalJSON
Dests == {Dec(0, 0), Dec(7, 0)}

\* the characters of the texts that are decoded
Alphabet == {"1", ".", " ", "k", "B", "i", "p", "s"}
Texts == UNION {[1..n -> Alphabet] : n \in 0..MaxTextLen}

\* JSON strings, null, and a JSON value that is not a string
DataInputs ==
  {JSONString(text) : text \in Texts} \cup {NoData, [kind |-> "number", text |-> <<"1">>]}

InitCodec ==
  /\ d = NewDetails("9.1.0", StateDownloading, "act-1")
  /\ created = [TargetVersion |-> d.TargetVersion, ActionID |-> d.ActionID]
  /\ reentrant = {}
  /\ outer = [t \in Threads |-> NoOuter]
  /\ mu = Free
  /\ heap = [a \in Addrs |-> ZeroTime]
  /\ pc = [t \in Threads |-> "idle"]
  /\ call = [t \in Threads |-> NoCall]
  /\ idx = [t \in Threads |-> 0]
  /\ view = [t \in Threads |-> NoView]
  /\ delivered = <<>>
  /\ calls = 0
  /\ commits = <<>>
  /\ regAt = <<>>
  /\ entry = [d |-> d, lastStateOp |-> "create"]
  /\ callLog = <<>>
  /\ lastStateOp = "create"
  /\ eqIn = NoEqIn
  /\ eqOut = NoEqOut
  /\ rcOut = NoRcOut
  /\ \/ \E r \in RateInputs, dest \in Dests :
          rcIn = [kind |-> "encode", rate |-> r, data |-> NoData, dest |-> dest]
     \/ \E data \in DataInputs, dest \in Dests :
          rcIn = [kind |-> "decode", rate |-> Dec(0, 0), data |-> data, dest |-> dest]

\* MarshalJSON is called on the rate
Encode ==
  /\ rcIn.kind = "encode"
  /\ rcOut.stage = "none"
  /\ rcOut' = [rcOut EXCEPT !.stage = "encoded", !.encoded = MarshalJSON(rcIn.rate)]
  /\ UNCHANGED <<trackerVars, histVars, eqVars, created, reentrant, outer, rcIn>>

\* UnmarshalJSON is called on what MarshalJSON returned, or on the given data
Decode ==
  /\ \/ rcIn.kind = "encode" /\ rcOut.stage = "encoded"
     \/ rcIn.kind = "decode" /\ rcOut.stage = "none"
  /\ LET data == IF rcIn.kind = "encode" THEN rcOut.encoded ELSE rcIn.data
         res == UnmarshalJSON(data, rcIn.dest)
     IN rcOut' = [rcOut EXCEPT !.stage = "decoded", !.err = res.err, !.dr = res.dr]
  /\ UNCHANGED <<trackerVars, histVars, eqVars, created, reentrant, outer, rcIn>>

NextCodec == Encode \/ Decode

SpecCodec == InitCodec /\ [][NextCodec]_vars

\* ===================================================================== claims
Mutators == {"SetState", "SetDownloadProgress", "Fail"}

\* what an observer is handed for the tracker value dd
AsDelivered(dd) == IF dd.State = StateCompleted THEN Nil ELSE [dd EXCEPT !.observers = <<>>]

\* the snapshots (not the nil markers) observers have been handed
DeliveredSnapshots ==
  UNION {{delivered[o][k] : k \in DOMAIN delivered[o]} : o \in DOMAIN delivered} \ {Nil}

\* thread t is about to return from a call of op
Returning(t, op) == mu = t /\ pc[t] = "unlock" /\ call[t].op = op

\* C1 (as claimed): whenever no call holds the lock, and in every snapshot
\* handed to an observer, failed_state and error_msg are non-empty if and
\* only if state is Failed.
C1_FailureMetadataIffFailed ==
  /\ mu = Free =>
       ((d.Metadata.FailedState # "" /\ d.Metadata.ErrorMsg # "") <=> d.State = StateFailed)
  /\ \A snap \in DeliveredSnapshots :
       (snap.Metadata.FailedState # "" /\ snap.Metadata.ErrorMsg # "") <=> snap.State = StateFailed

\* C1 (amended): whenever no call holds the lock, and in every snapshot handed
\* to an observer, failed_state or error_msg is non-empty only if state is
\* Failed.
C1_FailureMetadataOnlyIfFailed ==
  /\ mu = Free =>
       ((d.Metadata.FailedState # "" \/ d.Metadata.ErrorMsg # "") => d.State = StateFailed)
  /\ \A snap \in DeliveredSnapshots :
       (snap.Metadata.FailedState # "" \/ snap.Metadata.ErrorMsg # "") => snap.State = StateFailed

\* a failure recorded by Fail is at rest in the tracker and was handed to an observer
C1_Witness ==
  /\ mu = Free
  /\ d.State = StateFailed /\ d.Metadata.FailedState # "" /\ d.Metadata.ErrorMsg # ""
  /\ \E snap \in DeliveredSnapshots :
       snap.State = StateFailed /\ snap.Metadata.FailedState # "" /\ snap.Metadata.ErrorMsg # ""

\* observer o has not yet been called by the notifyObservers loop that is running
NotYetNotified(o) ==
  \E t \in Threads : mu = t /\ call[t].op \in Mutators /\ pc[t] = "notify" /\ o >= idx[t]

\* what observer o must have been handed after the call that registered it
ExpectedSince(o) ==
  [k \in 1..(Len(commits) - regAt[o]) |-> AsDelivered(commits[regAt[o] + k])]

\* C2: the values handed to an observer after its registration are exactly
\* the post-mutation snapshots of the mutating calls in the order in which
\* they held the lock; only the call that is still notifying may be missing.
C2_DeliveryFollowsLockOrder ==
  \A o \in DOMAIN delivered :
    Len(delivered[o]) >= 1 =>
      IF NotYetNotified(o)
        THEN Tail(delivered[o]) = SubSeq(ExpectedSince(o), 1, Len(ExpectedSince(o)) - 1)
        ELSE Tail(delivered[o]) = ExpectedSince(o)

\* a mutating call has notified the observer while another thread's mutating
\* call waits for the lock
C2_Witness ==
  \E t \in Threads, u \in Threads :
    /\ t # u
    /\ mu = t /\ call[t].op \in Mutators /\ pc[t] = "notify" /\ idx[t] > 1
    /\ pc[u] = "lock" /\ call[u].op \in Mutators
    /\ Len(delivered[1]) = 2

\* C3: when a mutating call is about to return, it has called every observer
\* registered before it exactly once, in registration order, each with the
\* tracker's value after the mutation; no observer is called before the
\* mutation is complete.
C3_EveryObserverOnceInOrder ==
  \A t \in Threads :
    (mu = t /\ call[t].op \in Mutators) =>
      /\ pc[t] \notin {"notify", "unlock"} => callLog = <<>>
      /\ pc[t] = "unlock" =>
           callLog = [k \in 1..Len(entry.d.observers) |->
                        <<entry.d.observers[k], AsDelivered(commits[Len(commits)])>>]

\* a mutating call returns after notifying two observers
C3_Witness ==
  \E t \in Threads :
    /\ mu = t /\ call[t].op \in Mutators /\ pc[t] = "unlock"
    /\ Len(entry.d.observers) = 2

\* C4: when RegisterObserver is about to return, the observer is the last of
\* the list, the other fields are untouched, and the only observer called is
\* the new one, once, with nil if state is Completed and otherwise with a
\* snapshot of the current target_version, state, action_id and metadata.
C4_RegisterNotifiesOnlyNewObserver ==
  \A t \in Threads :
    Returning(t, "RegisterObserver") =>
      /\ d = [entry.d EXCEPT !.observers = Append(entry.d.observers, Len(entry.d.observers) + 1)]
      /\ callLog = << <<Len(d.observers),
                       IF d.State = StateCompleted
                         THEN Nil
                         ELSE [TargetVersion |-> d.TargetVersion, State |-> d.State,
                               ActionID |-> d.ActionID, Metadata |-> d.Metadata,
                               observers |-> <<>>]>> >>

\* RegisterObserver returns on a Completed tracker that already had an observer
C4_Witness ==
  \E t \in Threads :
    /\ Returning(t, "RegisterObserver")
    /\ Len(entry.d.observers) >= 1
    /\ d.State = StateCompleted

\* C5: when SetState(s) with s other than Failed is about to return, state is
\* s, failed_state and error_msg are empty, and every snapshot the call
\* handed to an observer shows state s with both empty.
C5_SetStateClearsFailure ==
  \A t \in Threads :
    (Returning(t, "SetState") /\ call[t].s # StateFailed) =>
      /\ d.State = call[t].s
      /\ d.Metadata.FailedState = "" /\ d.Metadata.ErrorMsg = ""
      /\ \A k \in DOMAIN callLog :
           callLog[k][2] # Nil =>
             /\ callLog[k][2].State = call[t].s
             /\ callLog[k][2].Metadata.FailedState = ""
             /\ callLog[k][2].Metadata.ErrorMsg = ""

\* SetState leaves a recorded failure and has handed a snapshot to an observer
C5_Witness ==
  \E t \in Threads :
    /\ Returning(t, "SetState") /\ call[t].s # StateFailed
    /\ entry.d.State = StateFailed
    /\ entry.d.Metadata.FailedState # "" /\ entry.d.Metadata.ErrorMsg # ""
    /\ \E k \in DOMAIN callLog : callLog[k][2] # Nil

\* C6: when Fail(err), called in a state s other than Failed, is about to
\* return, state is Failed, failed_state is s and error_msg is the
\* description of err, and each observer was handed one snapshot that shows
\* all three.
C6_FailRecordsFailure ==
  \A t \in Threads :
    (Returning(t, "Fail") /\ entry.d.State # StateFailed) =>
      /\ d.State = StateFailed
      /\ d.Metadata.FailedState = entry.d.State
      /\ d.Metadata.ErrorMsg = call[t].msg
      /\ Len(callLog) = Len(d.observers)
      /\ \A k \in DOMAIN callLog :
           /\ callLog[k][1] = k
           /\ callLog[k][2] # Nil
           /\ callLog[k][2].State = StateFailed
           /\ callLog[k][2].Metadata.FailedState = entry.d.State
           /\ callLog[k][2].Metadata.ErrorMsg = call[t].msg

\* Fail("disk full") returns after failing a download and notifying an observer
C6_Witness ==
  \E t \in Threads :
    /\ Returning(t, "Fail") /\ call[t].msg = "disk full"
    /\ entry.d.State = StateDownloading
    /\ Len(callLog) >= 1

\* C7: when Fail is about to return and the last call that set state before
\* it was also Fail, failed_state is what it was when the call began, and it
\* is not Failed.
C7_SecondFailKeepsFailedState ==
  \A t \in Threads :
    (Returning(t, "Fail") /\ entry.lastStateOp = "fail") =>
      /\ d.Metadata.FailedState = entry.d.Metadata.FailedState
      /\ d.Metadata.FailedState # StateFailed

\* a second Fail returns with the state the first one recorded
C7_Witness ==
  \E t \in Threads :
    /\ Returning(t, "Fail") /\ entry.lastStateOp = "fail"
    /\ d.Metadata.FailedState = StateDownloading

\* C8: Equals never reads a partially updated tracker: the state and the
\* metadata an Equals call has read show failed_state or error_msg set only
\* together with state Failed, as every value of the tracker between two
\* calls does.
C8_EqualsReadsNoPartialUpdate ==
  \A t \in Threads :
    (pc[t] = "eqret" /\ view[t].done) =>
      ((view[t].Metadata.FailedState # "" \/ view[t].Metadata.ErrorMsg # "")
         => view[t].State = StateFailed)

\* the fields of two Details values agree (timestamps as instants)
Agree(a, b, h) ==
  /\ a.State = b.State
  /\ a.TargetVersion = b.TargetVersion
  /\ a.ActionID = b.ActionID
  /\ a.Metadata.FailedState = b.Metadata.FailedState
  /\ a.Metadata.ErrorMsg = b.Metadata.ErrorMsg
  /\ a.Metadata.DownloadPercent = b.Metadata.DownloadPercent
  /\ a.Metadata.DownloadRate = b.Metadata.DownloadRate
  /\ (a.Metadata.ScheduledAt = NilPtr) = (b.Metadata.ScheduledAt = NilPtr)
  /\ a.Metadata.ScheduledAt # NilPtr =>
       h[a.Metadata.ScheduledAt].instant = h[b.Metadata.ScheduledAt].instant

\* C9: Equals is reflexive and symmetric, true for two nil trackers, false
\* when exactly one is nil, and for two trackers true exactly when state,
\* target_version, action_id and metadata agree, whatever their observers.
C9_EqualsContract ==
  eqOut.applied =>
    /\ eqOut.xx
    /\ eqOut.xy = eqOut.yx
    /\ (eqIn.x = NilPtr /\ eqIn.y = NilPtr) => eqOut.xy
    /\ ((eqIn.x = NilPtr) # (eqIn.y = NilPtr)) => ~eqOut.xy
    /\ (eqIn.x # NilPtr /\ eqIn.y # NilPtr) =>
         (eqOut.xy <=> Agree(eqIn.store[eqIn.x], eqIn.store[eqIn.y], heap))

\* the time the tracker's scheduled_at denotes
ScheduledTime(dd) ==
  IF dd.Metadata.ScheduledAt = NilPtr THEN ZeroTime ELSE heap[dd.Metadata.ScheduledAt]

\* the tracker's fields and the time its scheduled_at denotes
TrackerValue == <<d, ScheduledTime(d)>>

\* C10: whatever an observer does with a snapshot it was handed, scheduled_at
\* included, leaves the tracker's own value as it was.
C10_ObserverCannotChangeTracker ==
  [][(\E o \in DOMAIN delivered, tv \in Times : ObserverWrite(o, tv)) => TrackerValue' = TrackerValue]_vars

\* the last value of a non-empty sequence
Last(seq) == seq[Len(seq)]

\* C13: while a call notifies and when it is about to return, every observer
\* it has called was handed nil if state is Completed, and otherwise a
\* snapshot with the tracker's current target_version, state, action_id and
\* metadata; and a snapshot handed out after a nil is a snapshot again (the
\* nil is not latched).
C13_NilExactlyWhenCompleted ==
  \A t \in Threads :
    (mu = t /\ pc[t] \in {"notify", "unlock"}) =>
      \A k \in DOMAIN callLog :
        /\ callLog[k][2] = Nil <=> d.State = StateCompleted
        /\ callLog[k][2] # Nil =>
             /\ callLog[k][2].TargetVersion = d.TargetVersion
             /\ callLog[k][2].State = d.State
             /\ callLog[k][2].ActionID = d.ActionID
             /\ callLog[k][2].Metadata = d.Metadata

\* an observer was handed nil and, by a later call, a snapshot
C13_Witness ==
  \E o \in DOMAIN delivered :
    \E k \in DOMAIN delivered[o] :
      /\ k > 1
      /\ delivered[o][k - 1] = Nil
      /\ delivered[o][k] # Nil
      /\ \E t \in Threads : mu = t /\ pc[t] = "unlock" /\ call[t].op \in {"SetState", "Fail"}

\* C14: failed_state is never Failed, in the tracker at every step of every
\* call and in every snapshot handed to an observer.
C14_FailedStateNeverFailed ==
  /\ d.Metadata.FailedState # StateFailed
  /\ \A snap \in DeliveredSnapshots : snap.Metadata.FailedState # StateFailed

\* Fail returns on a tracker that was already Failed without Fail having
\* recorded it (created Failed, or set Failed by SetState)
C14_Witness ==
  \E t \in Threads :
    /\ Returning(t, "Fail")
    /\ entry.d.State = StateFailed
    /\ entry.lastStateOp \in {"create", "setState"}

\* C17: when SetDownloadProgress(percent, rate) is about to return,
\* download_percent and download_rate are the arguments as given, every other
\* field and the observer list are as they were when the call began, and
\* each observer was called once with the new value.
C17_SetDownloadProgressStoresAsGiven ==
  \A t \in Threads :
    Returning(t, "SetDownloadProgress") =>
      /\ d = [entry.d EXCEPT !.Metadata.DownloadPercent = call[t].percent,
                             !.Metadata.DownloadRate = call[t].rate]
      /\ callLog = [k \in 1..Len(d.observers) |-> <<d.observers[k], AsDelivered(d)>>]

\* SetDownloadProgress returns on a Failed tracker with a percentage above 1,
\* having notified an observer
C17_Witness ==
  \E t \in Threads :
    /\ Returning(t, "SetDownloadProgress")
    /\ call[t].percent = Num(150) /\ call[t].rate = PosInf
    /\ d.State = StateFailed
    /\ Len(callLog) >= 1

\* C19: target_version and action_id are those passed to NewDetails, in the
\* tracker at every step and in every snapshot handed to an observer.
C19_VersionAndActionImmutable ==
  /\ d.TargetVersion = created.TargetVersion
  /\ d.ActionID = created.ActionID
  /\ \A snap \in DeliveredSnapshots :
       snap.TargetVersion = created.TargetVersion /\ snap.ActionID = created.ActionID

\* an observer holds a snapshot taken after SetState, SetDownloadProgress and Fail
C19_Witness ==
  /\ Len(commits) >= 2
  /\ lastStateOp = "fail"
  /\ \E snap \in DeliveredSnapshots : snap.State = StateFailed

\* C20: whenever the lock is free, the last value handed to every registered
\* observer is the tracker's current snapshot, or nil if state is Completed.
C20_ObserversCurrentAtRest ==
  mu = Free =>
    \A o \in DOMAIN delivered :
      /\ Len(delivered[o]) >= 1
      /\ Last(delivered[o]) = AsDelivered(d)

\* the lock is free after a mutation that followed a registration, while the
\* other thread waits with a mutation of its own
C20_Witness ==
  /\ mu = Free
  /\ \E o \in DOMAIN delivered : Len(delivered[o]) >= 2
  /\ \E u \in Threads : pc[u] = "lock" /\ call[u].op \in Mutators

\* C18 (as claimed): Completed and Failed are never left, state becomes
\* Completed only from Watching, and becomes Failed only from a state that
\* is neither Completed nor Failed.
C18_TransitionGraphRespected ==
  [][/\ d.State \in {StateCompleted, StateFailed} => d'.State = d.State
     /\ (d'.State = StateCompleted /\ d.State # StateCompleted) => d.State = StateWatching
     /\ (d'.State = StateFailed /\ d.State # StateFailed) =>
          d.State \notin {StateCompleted, StateFailed}]_vars

\* C18 (amended): the tracker imposes no transition graph: line 76 of
\* SetState(s) sets state to s and line 116 of Fail sets it to Failed,
\* whatever the state was (Completed and Failed included), and state changes
\* in no other step.
C18_AnyTransitionAccepted ==
  [][/\ \A t \in Threads :
          /\ (pc[t] = "ss76" /\ pc'[t] = "ss81") => d'.State = call[t].s
          /\ (pc[t] = "f116" /\ pc'[t] = "notify") => d'.State = StateFailed
     /\ d'.State # d.State => \E t \in Threads : mu = t /\ pc[t] \in {"ss76", "f116"}]_vars

\* SetState(Completed) returns on a tracker that was Failed
C18_Witness ==
  \E t \in Threads :
    /\ Returning(t, "SetState")
    /\ entry.d.State = StateFailed
    /\ d.State = StateCompleted

\* C15: with every observer returning without a call to the tracker, a call
\* that waits for the lock gets it, completes and returns, and the lock is
\* always released again.
C15_EveryCallReturns ==
  /\ \A t \in Threads : (pc[t] = "lock") ~> (pc[t] = "idle")
  /\ (mu # Free) ~> (mu = Free)

\* a call waits for the lock while the call that holds it notifies an observer
C15_Witness ==
  \E t \in Threads, u \in Threads :
    /\ pc[u] = "lock"
    /\ mu = t /\ pc[t] = "notify" /\ idx[t] = 1 /\ Len(d.observers) >= 1

\* C16: once an observer has called SetState, SetDownloadProgress, Fail or
\* RegisterObserver from its callback, that call waits for the lock and the
\* notifying call holds it, and this never changes: neither call returns.
C16_ReentrantObserverDeadlocks ==
  [][\A t \in Threads :
       outer[t] # NoOuter =>
         /\ pc[t] = "lock" /\ mu = t
         /\ pc'[t] = "lock" /\ mu' = t /\ outer'[t] = outer[t]]_vars

\* an observer notified by SetState has called back and waits, and so does
\* the other thread
C16_Witness ==
  \E t \in Threads, u \in Threads :
    /\ outer[t] # NoOuter /\ outer[t].call.op = "SetState" /\ pc[t] = "lock" /\ mu = t
    /\ u # t /\ pc[u] = "lock"

\* |a - r| <= r / 100, for a whole number a
WithinOnePercent(a, r) ==
  LET e0 == IF r.e < 0 THEN r.e ELSE 0
      av == a.m * Pow10(a.e - e0)
      rv == r.m * Pow10(r.e - e0)
      diff == IF av >= rv THEN av - rv ELSE rv - av
  IN diff <= rv \div 100

RoundTripDone == rcIn.kind = "encode" /\ rcOut.stage = "decoded"

\* C11: for each rate r of 0, 1536, 1048576 and 123456789.5, decoding the
\* encoding of r succeeds and gives a value within 1% of r, and decoding the
\* encoding of +Inf gives +Inf.
C11_RoundTripWithinOnePercent ==
  (RoundTripDone /\
   rcIn.rate \in {Dec(0, 0), Dec(1536, 0), Dec(1048576, 0), Dec(1234567895, -1), PosInf}) =>
    /\ ~rcOut.err
    /\ IF rcIn.rate = PosInf THEN rcOut.dr = PosInf
       ELSE rcOut.dr # PosInf /\ WithinOnePercent(rcOut.dr, rcIn.rate)

DecodeDone == rcIn.kind = "decode" /\ rcOut.stage = "decoded"

\* the text the decoder is given (a JSON null leaves the Go string empty)
GivenText == IF rcIn.data.kind = "string" THEN rcIn.data.text ELSE <<>>

\* C12: decoding a string that is not the sentinel and whose "ps" suffix is
\* missing returns an error and leaves the destination rate as it was.
C12_MissingSuffixRejected ==
  (DecodeDone /\ rcIn.data.kind = "string" /\ GivenText # Sentinel /\ ~HasSuffix(GivenText, Suffix)) =>
    rcOut.err /\ rcOut.dr = rcIn.dest

\* an unsigned decimal number: digits with at most one point, at least one digit
IsNumber(text) ==
  /\ \A k \in 1..Len(text) : IsDigit(text[k]) \/ text[k] = "."
  /\ Cardinality({k \in 1..Len(text) : text[k] = "."}) <= 1
  /\ \E k \in 1..Len(text) : IsDigit(text[k])

UnitSuffixes ==
  {<<>>, <<"b">>} \cup
  UNION {{<<u>>, <<u, "b">>, <<u, "i", "b">>} : u \in {"k", "m", "g", "t", "p"}}

\* NUMBER, at most one space, and a unit in either case
IsSize(text) ==
  \E n \in 1..Len(text), sp \in {0, 1} :
    /\ n + sp <= Len(text)
    /\ IsNumber(SubSeq(text, 1, n))
    /\ sp = 1 => text[n + 1] = " "
    /\ ToLower(SubSeq(text, n + sp + 1, Len(text))) \in UnitSuffixes

\* the text with one "ps" taken off its end, if it ends with it
WithoutPs(text) ==
  IF Len(text) >= 2 /\ text[Len(text) - 1] = "p" /\ text[Len(text)] = "s"
    THEN SubSeq(text, 1, Len(text) - 2) ELSE text

\* What the decoder does refuse: it returns an error exactly when the data is
\* not a JSON string or null, or the text is not the sentinel and, with one
\* trailing "ps" taken off if it has one, is not a size; the destination rate
\* is then as it was.
DecodeRefusesExactlyNonSizes ==
  DecodeDone =>
    /\ rcOut.err <=> \/ rcIn.data.kind = "number"
                     \/ GivenText # Sentinel /\ ~IsSize(WithoutPs(GivenText))
    /\ rcOut.err => rcOut.dr = rcIn.dest
    /\ (~rcOut.err /\ GivenText # Sentinel) => rcOut.dr.kind = "dec"
====
